---- MODULE Spec2Model ----
(***************************************************************************)
(* Microsoft 365 Defender KQL backend (Microsoft365DefenderBackend).       *)
(*                                                                         *)
(* Query text is a sequence of one-character strings, so that every        *)
(* concatenation, quoting and joining step of the backend is computed and  *)
(* can be compared character by character.  A SigmaString is a sequence    *)
(* whose elements are plain characters or the special markers              *)
(* WILDCARD_MULTI / WILDCARD_SINGLE.                                       *)
(***************************************************************************)
EXTENDS Integers, Sequences, FiniteSets, TLC

VARIABLES call, cond, processing_state, query, ret

vars == <<call, cond, processing_state, query, ret>>

(***************************************************************************)
(* Bounds of the model.                                                    *)
(***************************************************************************)
\* largest number of children of an OR/AND node handed to the optimizer
MaxArgs == 3
\* nesting depth of the condition trees handed to convert_condition
MaxDepth == 2

(***************************************************************************)
(* Generic text helpers.                                                   *)
(***************************************************************************)
RECURSIVE Join(_, _)
\* Python's sep.join(parts)
Join(parts, sep) ==
    IF Len(parts) = 0 THEN <<>>
    ELSE IF Len(parts) = 1 THEN parts[1]
    ELSE parts[1] \o sep \o Join(Tail(parts), sep)

\* needle occurs in text as a contiguous substring
Contains(text, needle) ==
    \E i \in 0..(Len(text) - Len(needle)) :
        SubSeq(text, i + 1, i + Len(needle)) = needle

\* suffix is the end of text
EndsWith(text, suffix) ==
    /\ Len(suffix) <= Len(text)
    /\ SubSeq(text, Len(text) - Len(suffix) + 1, Len(text)) = suffix

\* number of (possibly overlapping) occurrences of needle in text
Count(text, needle) ==
    Cardinality({i \in 0..(Len(text) - Len(needle)) :
                    SubSeq(text, i + 1, i + Len(needle)) = needle})

\* results of a conversion: query text, or the exception that left the method
Ok(text) == [error |-> "none", text |-> text]
Raise(exc) == [error |-> exc, text |-> <<>>]

(***************************************************************************)
(* Renderer configuration: the class attributes of the backend.            *)
(***************************************************************************)
precedence == <<"NOT", "OR", "AND">>
group_expression(expr) == <<"(">> \o expr \o <<")">>
token_separator == <<" ">>
or_token == <<"o", "r">>
and_token == <<"a", "n", "d">>
not_token == <<" ", "!", "~", " ">>
eq_token == <<" ", "=", "~", " ">>
field_quote == <<"'">>
field_escape == <<>>
str_quote == <<"\"">>
escape_char == <<"\\">>
wildcard_multi == <<"*">>
wildcard_single == <<"*">>
add_escaped == {"\\"}
filter_chars == {}
startswith_expression(field, value) ==
    field \o <<" ", "s", "t", "a", "r", "t", "s", "w", "i", "t", "h", " ">> \o value
endswith_expression(field, value) ==
    field \o <<" ", "e", "n", "d", "s", "w", "i", "t", "h", " ">> \o value
contains_expression(field, value) ==
    field \o <<" ", "c", "o", "n", "t", "a", "i", "n", "s", " ">> \o value
\* the template has no {field} or {value} placeholder
wildcard_match_expression(field, value) == <<"m", "a", "t", "c", "h">>
convert_or_as_in == TRUE
convert_and_as_in == TRUE
in_expressions_allow_wildcards == TRUE
field_in_list_expression(field, op, list) ==
    field \o <<" ">> \o op \o <<" ", "(">> \o list \o <<")">>
or_in_operator == <<"h", "a", "s", "_", "a", "n", "y">>
and_in_operator == <<"h", "a", "s", "_", "a", "l", "l">>
list_separator == <<",", " ">>
num_eq_token == <<" ", "=", "=", " ">>

(***************************************************************************)
(* Value model.                                                            *)
(***************************************************************************)
WILDCARD_MULTI == "WILDCARD_MULTI"
WILDCARD_SINGLE == "WILDCARD_SINGLE"
SpecialChars == {WILDCARD_MULTI, WILDCARD_SINGLE}

SigmaString(s) == [type |-> "SigmaString", s |-> s, number |-> 0]
SigmaNumber(n) == [type |-> "SigmaNumber", s |-> <<>>, number |-> n]

isSigmaString(v) == v.type = "SigmaString"

\* SigmaString.contains_special(): some part is a special character
contains_special(v) == \E i \in 1..Len(v.s) : v.s[i] \in SpecialChars

Digit(d) == CASE d = 0 -> "0" [] d = 1 -> "1" [] d = 2 -> "2" [] d = 3 -> "3"
              [] d = 4 -> "4" [] d = 5 -> "5" [] d = 6 -> "6" [] d = 7 -> "7"
              [] d = 8 -> "8" [] d = 9 -> "9"

RECURSIVE NatStr(_)
NatStr(n) == IF n < 10 THEN <<Digit(n)>> ELSE NatStr(n \div 10) \o <<Digit(n % 10)>>

\* str() of an integer: its decimal text
IntStr(n) == IF n < 0 THEN <<"-">> \o NatStr(0 - n) ELSE NatStr(n)

\* str() of a value: decimal text of a number, plain text of a string with
\* the wildcards written as * and ?
StrPart(c) == IF c = WILDCARD_MULTI THEN "*" ELSE IF c = WILDCARD_SINGLE THEN "?" ELSE c
str(v) ==
    IF isSigmaString(v) THEN [i \in 1..Len(v.s) |-> StrPart(v.s[i])]
    ELSE IntStr(v.number)

(***************************************************************************)
(* Condition tree.                                                         *)
(***************************************************************************)
NoValue == SigmaNumber(0)
FieldEq(field, value) == [type |-> "FieldEq", field |-> field, value |-> value, args |-> <<>>]
ConditionAND(args) == [type |-> "AND", field |-> <<>>, value |-> NoValue, args |-> args]
ConditionOR(args) == [type |-> "OR", field |-> <<>>, value |-> NoValue, args |-> args]
ConditionNOT(arg) == [type |-> "NOT", field |-> <<>>, value |-> NoValue, args |-> <<arg>>]

(***************************************************************************)
(* Field and string value rendering of the generic text backend.           *)
(***************************************************************************)
Letters == {"a", "b", "c", "d", "e", "f", "g", "h", "i", "j", "k", "l", "m",
            "n", "o", "p", "q", "r", "s", "t", "u", "v", "w", "x", "y", "z",
            "A", "B", "C", "D", "E", "F", "G", "H", "I", "J", "K", "L", "M",
            "N", "O", "P", "Q", "R", "S", "T", "U", "V", "W", "X", "Y", "Z"}
Digits == {"0", "1", "2", "3", "4", "5", "6", "7", "8", "9"}
\* the characters the regular expression class \w matches
WordChars == Letters \cup Digits \cup {"_"}
\* the characters the regular expression class \s matches
SpaceChars == {" ", "\t", "\n", "\r"}

\* re.compile("^\\w+$").match(field)
field_quote_pattern(field) ==
    /\ Len(field) > 0
    /\ \A i \in 1..Len(field) : field[i] \in WordChars
field_quote_pattern_negation == TRUE
field_escape_quote == TRUE
\* re.compile("\\s") matches at this character
field_escape_pattern(c) == c \in SpaceChars

RECURSIVE EscapeField(_)
\* every match of field_escape_pattern, and the quote character, is
\* prepended with field_escape
EscapeField(field) ==
    IF field = <<>> THEN <<>>
    ELSE (IF \/ field_escape_pattern(Head(field))
             \/ (field_escape_quote /\ <<Head(field)>> = field_quote)
          THEN field_escape ELSE <<>>)
         \o <<Head(field)>> \o EscapeField(Tail(field))

escape_and_quote_field(field_name) ==
    LET escaped_field_name == EscapeField(field_name)
        matches == field_quote_pattern(escaped_field_name)
        quote == IF field_quote_pattern_negation THEN ~matches ELSE matches
    IN  IF quote THEN field_quote \o escaped_field_name \o field_quote
        ELSE escaped_field_name

RECURSIVE Convert(_)
\* SigmaString.convert(escape_char, wildcard_multi, wildcard_single,
\*                     str_quote + add_escaped, filter_chars)
Convert(s) ==
    IF s = <<>> THEN <<>>
    ELSE LET c == Head(s)
             escaped_chars == {wildcard_multi[1], wildcard_single[1], str_quote[1]}
                                 \cup add_escaped
         IN  (IF c = WILDCARD_MULTI THEN wildcard_multi
              ELSE IF c = WILDCARD_SINGLE THEN wildcard_single
              ELSE IF c \in filter_chars THEN <<>>
              ELSE IF c \in escaped_chars THEN escape_char \o <<c>>
              ELSE <<c>>)
             \o Convert(Tail(s))

quote_string(s) == str_quote \o s \o str_quote

\* convert_value_str(s, state): s.convert(...) exists only on a SigmaString;
\* on any other value the attribute lookup raises AttributeError
convert_value_str(v) ==
    IF isSigmaString(v) THEN Ok(quote_string(Convert(v.s)))
    ELSE Raise("AttributeError")

startswith(v, c) == Len(v.s) > 0 /\ v.s[1] = c
endswith(v, c) == Len(v.s) > 0 /\ v.s[Len(v.s)] = c
Slice(v, from, to) == SigmaString(SubSeq(v.s, from, to))

\* the template convert_condition_field_eq_val_str chooses by the position of
\* the wildcards, filled with the field text and the converted value
str_expression(field, v) ==
    LET n == Len(v.s)
    IN  IF endswith(v, WILDCARD_MULTI) /\ ~contains_special(Slice(v, 1, n - 1))
        THEN startswith_expression(field, convert_value_str(Slice(v, 1, n - 1)).text)
        ELSE IF startswith(v, WILDCARD_MULTI) /\ ~contains_special(Slice(v, 2, n))
        THEN endswith_expression(field, convert_value_str(Slice(v, 2, n)).text)
        ELSE IF /\ startswith(v, WILDCARD_MULTI) /\ endswith(v, WILDCARD_MULTI)
                /\ ~contains_special(Slice(v, 2, n - 1))
        THEN contains_expression(field, convert_value_str(Slice(v, 2, n - 1)).text)
        ELSE IF contains_special(v)
        THEN wildcard_match_expression(field, convert_value_str(v).text)
        ELSE field \o eq_token \o convert_value_str(v).text

\* convert_condition_field_eq_val_str(cond, state)
convert_condition_field_eq_val_str(c) ==
    Ok(str_expression(escape_and_quote_field(c.field), c.value))

(***************************************************************************)
(* Overridden methods of Microsoft365DefenderBackend.                      *)
(***************************************************************************)
\* variant of the override that keeps the inherited string-equality token
convert_condition_field_eq_val_num_eq_token(c) ==
    Ok(escape_and_quote_field(c.field) \o eq_token \o str(c.value))

\* convert_condition_field_eq_val_num(cond, state)
convert_condition_field_eq_val_num(c) ==
    Ok(escape_and_quote_field(c.field) \o num_eq_token \o str(c.value))

RECURSIVE NonWildcardValues(_)
\* [arg.value for arg in cond.args if (isinstance(arg.value, SigmaString)
\*    and not arg.value.contains_special()) or not isinstance(arg.value, SigmaString)]
NonWildcardValues(args) ==
    IF args = <<>> THEN <<>>
    ELSE LET v == Head(args).value
         IN  (IF (isSigmaString(v) /\ ~contains_special(v)) \/ ~isSigmaString(v)
              THEN <<v>> ELSE <<>>)
             \o NonWildcardValues(Tail(args))

RECURSIVE WildcardValues(_)
\* [arg.value for arg in cond.args
\*    if isinstance(arg.value, SigmaString) and arg.value.contains_special()]
WildcardValues(args) ==
    IF args = <<>> THEN <<>>
    ELSE LET v == Head(args).value
         IN  (IF isSigmaString(v) /\ contains_special(v) THEN <<v>> ELSE <<>>)
             \o WildcardValues(Tail(args))

\* convert_condition_as_in_expression(cond, state)
convert_condition_as_in_expression(c) ==
    IF Len(c.args) = 0 THEN Raise("IndexError")
    ELSE
    LET field == escape_and_quote_field(c.args[1].field)
        op1 == IF c.type = "OR" THEN or_in_operator ELSE and_in_operator
        op2 == IF c.type = "OR" THEN or_token ELSE and_token
        nonwildcard == NonWildcardValues(c.args)
        converted == [i \in 1..Len(nonwildcard) |-> convert_value_str(nonwildcard[i])]
        list_nonwildcard ==
            Join([i \in 1..Len(converted) |-> converted[i].text], list_separator)
        list_wildcards == WildcardValues(c.args)
        as_in_expr == IF list_nonwildcard # <<>>
                      THEN field_in_list_expression(field, op1, list_nonwildcard)
                      ELSE <<>>
        wildcard_exprs_list ==
            [i \in 1..Len(list_wildcards) |->
                convert_condition_field_eq_val_str(FieldEq(field, list_wildcards[i])).text]
        wildcard_exprs ==
            Join(wildcard_exprs_list, token_separator \o op2 \o token_separator)
    IN  IF \E i \in 1..Len(converted) : converted[i].error # "none"
        THEN Raise("AttributeError")
        ELSE IF as_in_expr # <<>> /\ wildcard_exprs # <<>>
        THEN Ok(as_in_expr \o token_separator \o op2 \o token_separator \o wildcard_exprs)
        ELSE Ok(as_in_expr \o wildcard_exprs)

\* state.processing_state.get('query_table', None); None is the empty text
query_table_of(ps) == IF "query_table" \in DOMAIN ps THEN ps["query_table"] ELSE <<>>

\* variant of the finalizer that tests the key's presence, not its truth value
finalize_query_default_key_present(q, ps) ==
    LET prefix == IF "query_table" \in DOMAIN ps
                  THEN ps["query_table"] \o <<"\n", "|", " ", "w", "h", "e", "r", "e", " ">>
                  ELSE <<"s", "e", "a", "r", "c", "h", " ">>
    IN  prefix \o q

\* finalize_query_default(rule, query, index, state)
finalize_query_default(q, ps) ==
    LET query_table == query_table_of(ps)
        prefix == IF query_table # <<>>
                  THEN query_table \o <<"\n", "|", " ", "w", "h", "e", "r", "e", " ">>
                  ELSE <<"s", "e", "a", "r", "c", "h", " ">>
    IN  prefix \o q

(***************************************************************************)
(* Tree compiler of the generic text backend, calling the overrides.       *)
(***************************************************************************)
PrecedenceIndex(type) == CHOOSE i \in 1..Len(precedence) : precedence[i] = type
InPrecedence(type) == \E i \in 1..Len(precedence) : precedence[i] = type

\* TRUE when the inner condition needs no grouping inside the outer one
compare_precedence(outer, inner) ==
    IF ~InPrecedence(inner.type) THEN TRUE
    ELSE PrecedenceIndex(inner.type) <= PrecedenceIndex(outer.type)

\* the node is delegated to the list-membership optimizer
decide_convert_condition_as_in_expression(c) ==
    /\ \/ (c.type = "OR" /\ convert_or_as_in)
       \/ (c.type = "AND" /\ convert_and_as_in)
    /\ Len(c.args) > 0
    /\ \A i \in 1..Len(c.args) : c.args[i].type = "FieldEq"
    /\ \A i \in 1..Len(c.args) : c.args[i].field = c.args[1].field
    /\ \/ in_expressions_allow_wildcards
       \/ \A i \in 1..Len(c.args) : ~(isSigmaString(c.args[i].value)
                                       /\ contains_special(c.args[i].value))

\* the first exception raised among the results, or "none"
FirstError(rs) ==
    IF \E i \in 1..Len(rs) : rs[i].error # "none"
    THEN rs[CHOOSE i \in 1..Len(rs) :
                /\ rs[i].error # "none"
                /\ \A j \in 1..(i - 1) : rs[j].error = "none"].error
    ELSE "none"

RECURSIVE convert_condition(_)
convert_condition_group(c) ==
    LET expr == convert_condition(c)
    IN  IF expr.error # "none" THEN expr ELSE Ok(group_expression(expr.text))

\* convert_condition_and / convert_condition_or: children joined by the token
convert_condition_join(c, token) ==
    LET parts == [i \in 1..Len(c.args) |->
                    IF compare_precedence(c, c.args[i])
                    THEN convert_condition(c.args[i])
                    ELSE convert_condition_group(c.args[i])]
    IN  IF FirstError(parts) # "none" THEN Raise(FirstError(parts))
        ELSE Ok(Join([i \in 1..Len(parts) |-> parts[i].text],
                     token_separator \o token \o token_separator))

convert_condition_not(c) ==
    LET arg == c.args[1]
        expr == IF InPrecedence(arg.type) THEN convert_condition_group(arg)
                ELSE convert_condition(arg)
    IN  IF expr.error # "none" THEN expr
        ELSE Ok(not_token \o token_separator \o expr.text)

convert_condition_field_eq_val(c) ==
    IF isSigmaString(c.value) THEN convert_condition_field_eq_val_str(c)
    ELSE convert_condition_field_eq_val_num(c)

convert_condition(c) ==
    CASE c.type = "FieldEq" -> convert_condition_field_eq_val(c)
      [] c.type = "NOT" -> convert_condition_not(c)
      [] c.type = "OR" ->
            IF decide_convert_condition_as_in_expression(c)
            THEN convert_condition_as_in_expression(c)
            ELSE convert_condition_join(c, or_token)
      [] c.type = "AND" ->
            IF decide_convert_condition_as_in_expression(c)
            THEN convert_condition_as_in_expression(c)
            ELSE convert_condition_join(c, and_token)

(***************************************************************************)
(* Inputs.                                                                 *)
(***************************************************************************)
Image == <<"I", "m", "a", "g", "e">>
User == <<"U", "s", "e", "r">>
EventID == <<"E", "v", "e", "n", "t", "I", "D">>
\* field names the identifier pattern does not match: a space, a dot
EventSpaceID == <<"E", "v", "e", "n", "t", " ", "I", "D">>
DottedField == <<"a", ".", "b">>
Fields == {Image, EventID, EventSpaceID, DottedField}

cmd_exe == SigmaString(<<"c", "m", "d", ".", "e", "x", "e">>)
\* power*.exe: the wildcard is in the interior
power_star_exe == SigmaString(<<"p", "o", "w", "e", "r", WILDCARD_MULTI, ".", "e", "x", "e">>)
a_star == SigmaString(<<"a", WILDCARD_MULTI>>)
star_a == SigmaString(<<WILDCARD_MULTI, "a">>)
star_a_star == SigmaString(<<WILDCARD_MULTI, "a", WILDCARD_MULTI>>)
a_single == SigmaString(<<"a", WILDCARD_SINGLE>>)
quoted == SigmaString(<<"a", "\"", "*">>)
five == SigmaString(<<"5">>)
admin == SigmaString(<<"a", "d", "m", "i", "n">>)

Numbers == {0, 1, 2, 10, 4688, -7}
Strings == {cmd_exe, power_star_exe, a_star, star_a, star_a_star, quoted, five}

\* values handed to convert_condition_field_eq_val_num
NumEqValues == {SigmaNumber(n) : n \in Numbers} \cup Strings
\* values of the children of a node handed to the optimizer
AsInValues == {cmd_exe, power_star_exe, a_star, star_a, star_a_star, quoted,
               SigmaNumber(1), SigmaNumber(2)}

DeviceProcessEvents == <<"D", "e", "v", "i", "c", "e", "P", "r", "o", "c", "e", "s", "s",
                         "E", "v", "e", "n", "t", "s">>
EmptyState == [k \in {} |-> <<>>]
\* processing_state as the pipeline leaves it: no routing key, a table name,
\* an empty table name, or only an unrelated key
ProcessingStates == {EmptyState,
                     [query_table |-> DeviceProcessEvents],
                     [query_table |-> <<>>],
                     [pipeline |-> <<"m", "3", "6", "5">>]}

TreeLeaves == {FieldEq(Image, cmd_exe), FieldEq(User, admin), FieldEq(EventID, SigmaNumber(1))}

RECURSIVE TreesOfDepth(_)
\* condition trees of nesting depth at most d over TreeLeaves
TreesOfDepth(d) ==
    IF d = 0 THEN TreeLeaves
    ELSE LET sub == TreesOfDepth(d - 1)
         IN  TreeLeaves
             \cup {ConditionNOT(a) : a \in sub}
             \cup {ConditionAND(<<a, b>>) : a \in sub, b \in sub}
             \cup {ConditionOR(<<a, b>>) : a \in sub, b \in sub}
Trees == TreesOfDepth(MaxDepth)

(***************************************************************************)
(* State machine of one rule's compilation.  The pipeline has filled       *)
(* processing_state before the conversion starts; one backend method       *)
(* converts the condition; the finalizer runs once on the text the         *)
(* conversion returned; the compilation state is then discarded.           *)
(***************************************************************************)
NoCond == FieldEq(<<>>, NoValue)

Init ==
    /\ call = "none"
    /\ cond = NoCond
    /\ processing_state = EmptyState
    /\ query = <<>>
    /\ ret = Raise("not called")

CallNumEq ==
    /\ call = "none"
    /\ \E f \in Fields, v \in NumEqValues, ps \in ProcessingStates :
        /\ call' = "convert_condition_field_eq_val_num"
        /\ cond' = FieldEq(f, v)
        /\ processing_state' = ps
        /\ ret' = convert_condition_field_eq_val_num(FieldEq(f, v))
        /\ UNCHANGED query

CallAsIn ==
    /\ call = "none"
    /\ \E type \in {"OR", "AND"}, f \in Fields, n \in 0..MaxArgs, ps \in ProcessingStates :
        \E vals \in [1..n -> AsInValues] :
            LET args == [i \in 1..n |-> FieldEq(f, vals[i])]
                c == IF type = "OR" THEN ConditionOR(args) ELSE ConditionAND(args)
            IN  /\ call' = "convert_condition_as_in_expression"
                /\ cond' = c
                /\ processing_state' = ps
                /\ ret' = convert_condition_as_in_expression(c)
                /\ UNCHANGED query

CallConvert ==
    /\ call = "none"
    /\ \E c \in Trees, ps \in ProcessingStates :
        /\ call' = "convert_condition"
        /\ cond' = c
        /\ processing_state' = ps
        /\ ret' = convert_condition(c)
        /\ UNCHANGED query

CallFinalize ==
    /\ call \notin {"none", "finalize_query_default"}
    /\ ret.error = "none"
    /\ call' = "finalize_query_default"
    /\ query' = ret.text
    /\ ret' = Ok(finalize_query_default(ret.text, processing_state))
    /\ UNCHANGED <<cond, processing_state>>

\* the rule is done (finalized, or its conversion raised): the compilation
\* state is discarded and the next rule starts from a fresh one
Discard ==
    /\ \/ call = "finalize_query_default"
       \/ (call # "none" /\ ret.error # "none")
    /\ call' = "none"
    /\ cond' = NoCond
    /\ processing_state' = EmptyState
    /\ query' = <<>>
    /\ ret' = Raise("not called")

Next == CallNumEq \/ CallAsIn \/ CallFinalize \/ Discard

Spec == Init /\ [][Next]_vars

NextRule == CallConvert \/ CallFinalize \/ Discard

SpecRule == Init /\ [][NextRule]_vars

(***************************************************************************)
(* Properties.                                                             *)
(***************************************************************************)
WhereClause == <<"\n", "|", " ", "w", "h", "e", "r", "e", " ">>
SearchToken == <<"s", "e", "a", "r", "c", "h", " ">>
StringEquality == <<" ", "=", "~", " ">>
NumericEquality == <<" ", "=", "=", " ">>

DigitValue(c) == CASE c = "0" -> 0 [] c = "1" -> 1 [] c = "2" -> 2 [] c = "3" -> 3
                   [] c = "4" -> 4 [] c = "5" -> 5 [] c = "6" -> 6 [] c = "7" -> 7
                   [] c = "8" -> 8 [] c = "9" -> 9 [] OTHER -> -1

RECURSIVE DecimalValue(_)
\* the natural number a digit sequence denotes, -1 if it is no digit sequence
DecimalValue(text) ==
    IF text = <<>> THEN -1
    ELSE IF Len(text) = 1 THEN DigitValue(text[1])
    ELSE LET front == DecimalValue(SubSeq(text, 1, Len(text) - 1))
             last == DigitValue(text[Len(text)])
         IN  IF front < 0 \/ last < 0 THEN -1 ELSE 10 * front + last

\* text is the decimal literal of the integer n
IsDecimalOf(text, n) ==
    IF n < 0 THEN /\ Len(text) > 1
                  /\ text[1] = "-"
                  /\ DecimalValue(Tail(text)) = 0 - n
    ELSE DecimalValue(text) = n

Finalized == call = "finalize_query_default"

\* C1 (as stated): the finalizer returns t + "\n| where " + q whenever the
\* routing key 'query_table' is in the mapping with value t, and "search " + q
\* whenever the key is not in the mapping; q is the suffix of the result.
C1_KeyPresentDecides ==
    Finalized =>
        /\ ("query_table" \in DOMAIN processing_state =>
                ret.text = processing_state["query_table"] \o WhereClause \o query)
        /\ ("query_table" \notin DOMAIN processing_state =>
                ret.text = SearchToken \o query)
        /\ EndsWith(ret.text, query)

\* C1 (amended): the finalizer returns t + "\n| where " + q when the routing
\* key 'query_table' is in the mapping with a non-empty value t, and
\* "search " + q when the key is missing or its value is empty; q is the
\* suffix of the result in both cases.
C1_NonEmptyTableDecides ==
    Finalized =>
        LET present == /\ "query_table" \in DOMAIN processing_state
                       /\ processing_state["query_table"] # <<>>
        IN  /\ ret.error = "none"
            /\ (present =>
                    ret.text = processing_state["query_table"] \o WhereClause \o query)
            /\ (~present => ret.text = SearchToken \o query)
            /\ EndsWith(ret.text, query)

\* a query finalized with the routing key present and its value empty
C1_EmptyTableFinalized ==
    /\ Finalized
    /\ "query_table" \in DOMAIN processing_state
    /\ processing_state["query_table"] = <<>>
    /\ query # <<>>
    /\ ret.text = SearchToken \o query

NumEqCalled == call = "convert_condition_field_eq_val_num"

\* C3: a numeric equality renders as the quoted field, the token " == " and
\* the decimal text of the number, and never contains the token " =~ ";
\* EventID with 4688 renders as EventID == 4688.
C3_NumericEqualityToken ==
    (NumEqCalled /\ ~isSigmaString(cond.value)) =>
        LET field == escape_and_quote_field(cond.field)
            head == field \o NumericEquality
        IN  /\ ret.error = "none"
            /\ SubSeq(ret.text, 1, Len(head)) = head
            /\ IsDecimalOf(SubSeq(ret.text, Len(head) + 1, Len(ret.text)), cond.value.number)
            /\ ~Contains(ret.text, StringEquality)
            /\ (cond = FieldEq(EventID, SigmaNumber(4688)) =>
                    ret.text = <<"E", "v", "e", "n", "t", "I", "D", " ", "=", "=", " ",
                                 "4", "6", "8", "8">>)

\* EventID compared with the number 4688 has been rendered
C3_EventID4688Rendered ==
    /\ NumEqCalled
    /\ cond = FieldEq(EventID, SigmaNumber(4688))
    /\ ret = Ok(<<"E", "v", "e", "n", "t", "I", "D", " ", "=", "=", " ", "4", "6", "8", "8">>)

\* C4: a numeric equality on a non-numeric value fails with TypeMismatch and
\* returns no query text.
C4_NonNumericRejected ==
    (NumEqCalled /\ isSigmaString(cond.value)) =>
        /\ ret.error = "TypeMismatch"
        /\ ret.text = <<>>

AsInCalled == call = "convert_condition_as_in_expression"

\* a string value containing an unescaped wildcard marker
IsWildcarded(v) == isSigmaString(v) /\ \E i \in 1..Len(v.s) : v.s[i] \in SpecialChars

RECURSIVE ExactValues(_)
\* the child values that are not wildcarded strings, in child order
ExactValues(args) ==
    IF args = <<>> THEN <<>>
    ELSE (IF IsWildcarded(Head(args).value) THEN <<>> ELSE <<Head(args).value>>)
            \o ExactValues(Tail(args))

RECURSIVE WildcardedValues(_)
\* the child values that are wildcarded strings, in child order
WildcardedValues(args) ==
    IF args = <<>> THEN <<>>
    ELSE (IF IsWildcarded(Head(args).value) THEN <<Head(args).value>> ELSE <<>>)
            \o WildcardedValues(Tail(args))

\* a value as it stands in a list: a string quoted and escaped, a number as
\* its unquoted decimal literal
ListValue(v) == IF isSigmaString(v) THEN quote_string(Convert(v.s)) ELSE IntStr(v.number)

InOperator(c) == IF c.type = "OR" THEN <<"h", "a", "s", "_", "a", "n", "y">>
                 ELSE <<"h", "a", "s", "_", "a", "l", "l">>
OtherInOperator(c) == IF c.type = "OR" THEN <<"h", "a", "s", "_", "a", "l", "l">>
                      ELSE <<"h", "a", "s", "_", "a", "n", "y">>
BoolToken(c) == IF c.type = "OR" THEN <<"o", "r">> ELSE <<"a", "n", "d">>
OtherBoolToken(c) == IF c.type = "OR" THEN <<"a", "n", "d">> ELSE <<"o", "r">>

\* the list-membership expression over the exact values (no part if there is
\* none) followed by one fragment per wildcarded value, joined by the node's
\* boolean token; listField and fragmentField are the field texts used
Partitioned(c, listField, fragmentField) ==
    LET exact == ExactValues(c.args)
        wild == WildcardedValues(c.args)
        list == Join([i \in 1..Len(exact) |-> ListValue(exact[i])], <<",", " ">>)
        inExpr == listField \o <<" ">> \o InOperator(c) \o <<" ", "(">> \o list \o <<")">>
        fragments == [i \in 1..Len(wild) |-> str_expression(fragmentField, wild[i])]
        parts == (IF exact = <<>> THEN <<>> ELSE <<inExpr>>) \o fragments
    IN  Join(parts, <<" ">> \o BoolToken(c) \o <<" ">>)

\* the ways a field name can be written: bare, quoted, quoted twice
FieldTexts(f) == {f, <<"'">> \o f \o <<"'">>, <<"'", "'">> \o f \o <<"'", "'">>}

\* C5: for every OR/AND node of equality predicates on one field, the list
\* holds exactly the child values that are not wildcarded strings and the
\* fragments are exactly those of the wildcarded strings, both in child
\* order, so that every child value appears exactly once.
C5_PartitionComplete ==
    (AsInCalled /\ Len(cond.args) > 0) =>
        /\ ret.error = "none"
        /\ \E listField \in FieldTexts(cond.args[1].field),
              fragmentField \in FieldTexts(cond.args[1].field) :
                ret.text = Partitioned(cond, listField, fragmentField)

\* C6: an OR node uses has_any and "or", an AND node has_all and "and"; the
\* list-membership expression is there only if some value is exact and
\* comes first; one " <token> " stands between adjacent parts, none leads,
\* trails or is doubled; a node with children never yields the empty text.
C6_JoinedByNodeToken ==
    (AsInCalled /\ Len(cond.args) > 0) =>
        LET nExact == Len(ExactValues(cond.args))
            nParts == (IF nExact = 0 THEN 0 ELSE 1) + Len(WildcardedValues(cond.args))
            sep == <<" ">> \o BoolToken(cond) \o <<" ">>
        IN  /\ ret.error = "none"
            /\ ret.text # <<>>
            /\ Count(ret.text, sep) = nParts - 1
            /\ Count(ret.text, <<" ">> \o OtherBoolToken(cond) \o <<" ">>) = 0
            /\ Count(ret.text, <<" ">> \o InOperator(cond) \o <<" ", "(">>)
                    = (IF nExact = 0 THEN 0 ELSE 1)
            /\ Count(ret.text, <<" ">> \o OtherInOperator(cond) \o <<" ", "(">>) = 0
            /\ SubSeq(ret.text, 1, Len(sep) - 1) # Tail(sep)
            /\ ~EndsWith(ret.text, SubSeq(sep, 1, Len(sep) - 1))
            /\ ~Contains(ret.text, sep \o Tail(sep))

ImageCmdOrPower ==
    ConditionOR(<<FieldEq(Image, cmd_exe), FieldEq(Image, power_star_exe)>>)

\* C7: Or[Image="cmd.exe", Image="power*.exe"] renders as
\* Image has_any ("cmd.exe") or Image contains "power".
C7_InteriorWildcardContains ==
    (AsInCalled /\ cond = ImageCmdOrPower) =>
        ret = Ok(<<"I", "m", "a", "g", "e", " ", "h", "a", "s", "_", "a", "n", "y", " ",
                   "(", "\"", "c", "m", "d", ".", "e", "x", "e", "\"", ")", " ",
                   "o", "r", " ",
                   "I", "m", "a", "g", "e", " ", "c", "o", "n", "t", "a", "i", "n", "s", " ",
                   "\"", "p", "o", "w", "e", "r", "\"">>)

HasNumber(args) == \E i \in 1..Len(args) : ~isSigmaString(args[i].value)

\* C9: a node whose values include numbers is converted without failure and
\* every number stands in the list as its unquoted decimal literal; the
\* values 1 and 2 on EventID give EventID has_any (1, 2).
C9_NumbersInList ==
    (AsInCalled /\ Len(cond.args) > 0 /\ HasNumber(cond.args)) =>
        LET exact == ExactValues(cond.args)
            list == Join([i \in 1..Len(exact) |-> ListValue(exact[i])], <<",", " ">>)
        IN  /\ ret.error = "none"
            /\ Contains(ret.text, <<"(">> \o list \o <<")">>)
            /\ (cond = ConditionOR(<<FieldEq(EventID, SigmaNumber(1)),
                                     FieldEq(EventID, SigmaNumber(2))>>) =>
                    ret.text = <<"E", "v", "e", "n", "t", "I", "D", " ",
                                 "h", "a", "s", "_", "a", "n", "y", " ",
                                 "(", "1", ",", " ", "2", ")">>)

\* the field as a standalone equality predicate renders it: quoted once if
\* the identifier pattern does not match it
StandaloneField(f) ==
    IF f # <<>> /\ \A i \in 1..Len(f) : f[i] \in WordChars THEN f
    ELSE <<"'">> \o f \o <<"'">>

\* C10: in the optimizer's output the field text of every wildcard fragment
\* is the field text of the list-membership expression and of a standalone
\* equality predicate on that field.
C10_FieldQuotedOnce ==
    (AsInCalled /\ ret.error = "none" /\ WildcardedValues(cond.args) # <<>>) =>
        ret.text = Partitioned(cond, StandaloneField(cond.args[1].field),
                               StandaloneField(cond.args[1].field))

ConvertCalled == call = "convert_condition"

\* C2: in the text of an AND node every OR child with two or more children
\* that the list-membership optimizer does not take is wrapped in "(...)".
C2_OrGroupedInsideAnd ==
    (ConvertCalled /\ cond.type = "AND" /\ ret.error = "none") =>
        \A i \in 1..Len(cond.args) :
            LET child == cond.args[i]
            IN  (/\ child.type = "OR"
                 /\ Len(child.args) >= 2
                 /\ ~decide_convert_condition_as_in_expression(child)) =>
                    Contains(ret.text,
                             <<"(">> \o convert_condition(child).text \o <<")">>)

\* C8: Not over an equality predicate on a non-wildcarded string renders as
\* the field, the token " !~ " and the quoted value, with no grouping and no
\* " =~ "; Not(User = "admin") renders as User !~ "admin".
C8_NegatedEquality ==
    (/\ ConvertCalled
     /\ cond.type = "NOT"
     /\ cond.args[1].type = "FieldEq"
     /\ isSigmaString(cond.args[1].value)
     /\ ~IsWildcarded(cond.args[1].value)) =>
        /\ ret = Ok(StandaloneField(cond.args[1].field) \o <<" ", "!", "~", " ">>
                        \o ListValue(cond.args[1].value))
        /\ ~Contains(ret.text, StringEquality)
        /\ ~Contains(ret.text, <<"(">>)
        /\ (cond = ConditionNOT(FieldEq(User, admin)) =>
                ret.text = <<"U", "s", "e", "r", " ", "!", "~", " ",
                             "\"", "a", "d", "m", "i", "n", "\"">>)

====
